---- MODULE Spec2Model ----
(***************************************************************************)
(* climate_learn.metrics.functional: the metric functions mse, rmse,       *)
(* nrmses, nrmseg, acc, pearson and mean_bias over [N,C,H,W] tensors.      *)
(*                                                                         *)
(* Tensor entries are exact numbers.  A rational is <<n, d>> in lowest     *)
(* terms with d > 0.  A real is a finite sum of rational multiples of      *)
(* square roots of distinct squarefree naturals, kept as the set of its    *)
(* terms <<radicand, coefficient>>; that form is unique, so two reals are  *)
(* equal exactly when their term sets are.  Floating-point rounding is not *)
(* modelled: a score is the value the float computation approximates.      *)
(***************************************************************************)
EXTENDS Integers, Sequences, FiniteSets, TLC

VARIABLES pred, target, metric, clim, lat_weights, result

vars == <<pred, target, metric, clim, lat_weights, result>>

\* ------------------------------------------------------------------ bounds

\* Largest number of elements of an input tensor (N*C*H*W).
MaxCells == 3

\* Entries of pred and target.
Vals == {0, 1}

\* Per-channel climatology values.
ClimVals == {1, 2}

\* Per-latitude weights.
WeightVals == {<<1, 2>>, <<1, 1>>}

\* ----------------------------------------------------------- exact numbers

Abs(x) == IF x < 0 THEN -x ELSE x

Max(a, b) == IF a >= b THEN a ELSE b

RECURSIVE GCD(_, _)
GCD(a, b) == IF b = 0 THEN a ELSE GCD(b, a % b)

\* The rational n/d (d # 0) in lowest terms.
Rat(n, d) ==
    LET g == GCD(Abs(n), Abs(d))
        s == IF d < 0 THEN -1 ELSE 1
    IN  <<(s * n) \div g, (s * d) \div g>>

RZero == <<0, 1>>
ROne == <<1, 1>>
RInt(k) == <<k, 1>>
RAdd(p, q) == Rat(p[1] * q[2] + q[1] * p[2], p[2] * q[2])
RSub(p, q) == Rat(p[1] * q[2] - q[1] * p[2], p[2] * q[2])
RMul(p, q) == Rat(p[1] * q[1], p[2] * q[2])
RDiv(p, q) == Rat(p[1] * q[2], p[2] * q[1])

RECURSIVE RSumOver(_, _)
\* Sum of the rationals f[i], i in S.
RSumOver(S, f) ==
    IF S = {} THEN RZero
    ELSE LET i == CHOOSE j \in S : TRUE
         IN  RAdd(f[i], RSumOver(S \ {i}, f))

\* nan: the result of 0/0.
NaN == {<<0, ROne>>}

IsNaN(x) == x = NaN

RealZero == {}

RealOfRat(q) == IF q[1] = 0 THEN {} ELSE {<<1, q>>}

RealOne == RealOfRat(ROne)

Rads(x) == {t[1] : t \in x}

Coef(x, r) == IF r \in Rads(x) THEN (CHOOSE t \in x : t[1] = r)[2] ELSE RZero

RealAdd(x, y) ==
    IF IsNaN(x) \/ IsNaN(y) THEN NaN
    ELSE {t \in {<<r, RAdd(Coef(x, r), Coef(y, r))>> : r \in Rads(x) \cup Rads(y)} :
            t[2][1] # 0}

\* x * q for a rational q.
RealScale(x, q) ==
    IF IsNaN(x) THEN NaN
    ELSE IF q[1] = 0 THEN {}
    ELSE {<<t[1], RMul(t[2], q)>> : t \in x}

RECURSIVE SquarePartFrom(_, _, _)
\* The largest s >= best with s*s dividing m, searching from u upwards.
SquarePartFrom(m, u, best) ==
    IF u * u > m THEN best
    ELSE SquarePartFrom(m, u + 1, IF m % (u * u) = 0 THEN u ELSE best)

\* The largest s with s*s dividing m (m >= 1).
SquarePart(m) == SquarePartFrom(m, 2, 1)

\* sqrt(q) for a rational q >= 0.  With n = a^2 * r and d = b^2 * t (r, t
\* squarefree), sqrt(n/d) = (a / (b*t)) * sqrt(r*t).
RealSqrt(q) ==
    IF q[1] = 0 THEN {}
    ELSE LET a == SquarePart(q[1])
             b == SquarePart(q[2])
             r == q[1] \div (a * a)
             t == q[2] \div (b * b)
         IN  {<<r * t, Rat(a, b * t)>>}

\* c1*sqrt(r1) * c2*sqrt(r2) = c1*c2*g*sqrt(r1*r2/g^2), g = gcd(r1, r2).
TermMul(t, u) ==
    LET g == GCD(t[1], u[1])
    IN  <<(t[1] \div g) * (u[1] \div g), RMul(RMul(t[2], u[2]), RInt(g))>>

RECURSIVE RealSumOver(_, _)
\* Sum of the reals f[i], i in S.
RealSumOver(S, f) ==
    IF S = {} THEN RealZero
    ELSE LET i == CHOOSE j \in S : TRUE
         IN  RealAdd(f[i], RealSumOver(S \ {i}, f))

RealMul(x, y) ==
    IF IsNaN(x) \/ IsNaN(y) THEN NaN
    ELSE LET P == x \X y
             f == [p \in P |-> {TermMul(p[1], p[2])}]
         IN  RealSumOver(P, f)

\* q / x for a rational q and a real x of one term c*sqrt(r):
\* q / (c*sqrt(r)) = (q / (c*r)) * sqrt(r).  x = 0 gives nan when q = 0.
RatOverSurd(q, x) ==
    IF IsNaN(x) \/ x = {} THEN NaN
    ELSE LET t == CHOOSE u \in x : TRUE
             k == RDiv(q, RMul(t[2], RInt(t[1])))
         IN  IF k[1] = 0 THEN {} ELSE {<<t[1], k>>}

\* ------------------------------------------------------------------ tensors
\* A tensor is [shape |-> <<N, C, H, W>>, v |-> [Idx(shape) -> value]].
\* torch dimension k is position k + 1 of the shape.

Idx(s) == {<<n, c, h, w>> : n \in 1..s[1], c \in 1..s[2], h \in 1..s[3], w \in 1..s[4]}

Cells(s) == s[1] * s[2] * s[3] * s[4]

\* An absent optional argument (Python None).
None == [shape |-> <<>>, v |-> <<>>]

IsNone(t) == t.shape = <<>>

\* Integer entries read as floating-point numbers.
Float(t) == [shape |-> t.shape, v |-> [i \in Idx(t.shape) |-> RInt(t.v[i])]]

\* torch broadcasting of two shapes of the same rank.
Compatible(s, t) == \A k \in 1..4 : s[k] = t[k] \/ s[k] = 1 \/ t[k] = 1

BShape(s, t) == <<Max(s[1], t[1]), Max(s[2], t[2]), Max(s[3], t[3]), Max(s[4], t[4])>>

\* The entry of t that index i of a broadcast shape reads.
BAt(t, i) ==
    t.v[<<IF t.shape[1] = 1 THEN 1 ELSE i[1], IF t.shape[2] = 1 THEN 1 ELSE i[2],
          IF t.shape[3] = 1 THEN 1 ELSE i[3], IF t.shape[4] = 1 THEN 1 ELSE i[4]>>]

TSub(a, b) ==
    LET s == BShape(a.shape, b.shape)
    IN  [shape |-> s, v |-> [i \in Idx(s) |-> RSub(BAt(a, i), BAt(b, i))]]

TMul(a, b) ==
    LET s == BShape(a.shape, b.shape)
    IN  [shape |-> s, v |-> [i \in Idx(s) |-> RMul(BAt(a, i), BAt(b, i))]]

TSquare(a) == [shape |-> a.shape, v |-> [i \in Idx(a.shape) |-> RMul(a.v[i], a.v[i])]]

\* The mean of the rationals f[i], i in S (S nonempty).
RMeanOver(S, f) == RDiv(RSumOver(S, f), RInt(Cardinality(S)))

\* Tensor.mean over the dimensions D (positions of the shape), keeping them
\* with size 1.
TMeanTo(a, D, sh) ==
    [shape |-> sh,
     v |-> [i \in Idx(sh) |->
              RMeanOver({j \in Idx(a.shape) : \A k \in (1..4) \ D : j[k] = i[k]}, a.v)]]

TMean(a, D) ==
    TMeanTo(a, D, <<IF 1 \in D THEN 1 ELSE a.shape[1], IF 2 \in D THEN 1 ELSE a.shape[2],
                    IF 3 \in D THEN 1 ELSE a.shape[3], IF 4 \in D THEN 1 ELSE a.shape[4]>>)

\* The one entry of a tensor of one element.
Item(a) == a.v[<<1, 1, 1, 1>>]

\* Tensor.sum over every element.
TSum(a) == RSumOver(Idx(a.shape), a.v)

\* x[:, c]: channel c alone, as a tensor with one channel.
Channel(a, c) ==
    LET s == <<a.shape[1], 1, a.shape[3], a.shape[4]>>
    IN  [shape |-> s, v |-> [i \in Idx(s) |-> a.v[<<i[1], c, i[3], i[4]>>]]]

\* torch.nn.functional.interpolate(w, size=(h, 1)), mode 'nearest': output
\* row i (from 0) reads input row floor(i * in / out).
Interpolate(w, h) ==
    LET s == <<w.shape[1], w.shape[2], h, 1>>
    IN  [shape |-> s,
         v |-> [i \in Idx(s) |->
                  w.v[<<i[1], i[2], (((i[3] - 1) * w.shape[3]) \div h) + 1, 1>>]]]

\* Mean of the reals f[i], i in S (S nonempty).
RealMeanOver(S, f) == RealScale(RealSumOver(S, f), Rat(1, Cardinality(S)))

\* ----------------------------------------------------------------- results
\* What a call does: raise, return a 0-dimensional tensor, or return a
\* 1-dimensional tensor.  A metric is modelled as the map from its
\* aggregate_only argument to what the call does.

Raise(e) == [kind |-> "error", val |-> e]
Scalar(x) == [kind |-> "scalar", val |-> x]
Vector(q) == [kind |-> "vector", val |-> q]

\* The per-channel scores and the aggregate, before aggregate_only is read.
Scores(per_channel, loss) == [kind |-> "scores", val |-> <<per_channel, loss>>]

\* if aggregate_only: return loss
\* return torch.cat((per_channel, loss.unsqueeze(0)))
Returned(r, aggregate_only) ==
    IF r.kind = "error" THEN r
    ELSE IF aggregate_only THEN Scalar(r.val[2])
    ELSE Vector(Append(r.val[1], r.val[2]))

ByFlag(r) == [aggregate_only \in BOOLEAN |-> Returned(r, aggregate_only)]

\* ------------------------------------------------------------------- mse

\* A 1-dimensional tensor of one rational per channel, as reals.
PerChannel(t) == [c \in 1..t.shape[2] |-> RealOfRat(t.v[<<1, c, 1, 1>>])]

\* error.mean([0, 2, 3]) and error.mean() of the (weighted) squared error.
mse_reduce(error) ==
    Scores(PerChannel(TMean(error, {1, 3, 4})),
           RealOfRat(Item(TMean(error, {1, 2, 3, 4}))))

\* mse_weigh with the aggregate taken before the weights are applied.
mse_weigh_aggregate_first(error, lw) ==
    IF ~Compatible(error.shape, lw.shape) THEN Raise("RuntimeError")
    ELSE Scores(PerChannel(TMean(TMul(error, lw), {1, 3, 4})),
                RealOfRat(Item(TMean(error, {1, 2, 3, 4}))))

\* error = error * lat_weights
mse_weigh(error, lw) ==
    IF ~Compatible(error.shape, lw.shape) THEN Raise("RuntimeError")
    ELSE mse_reduce(TMul(error, lw))

\* lat_weights.shape[2] is read before lat_weights is tested for None.
mse_resample(error, w) ==
    IF IsNone(w) THEN Raise("AttributeError")
    ELSE mse_weigh(error, IF w.shape[3] # error.shape[3] THEN Interpolate(w, error.shape[3]) ELSE w)

mse_scores(p, t, w) ==
    IF ~Compatible(p.shape, t.shape) THEN Raise("RuntimeError")
    ELSE mse_resample(TSquare(TSub(Float(p), Float(t))), w)

mse(p, t, w) == ByFlag(mse_scores(p, t, w))

\* ------------------------------------------------------------------- rmse

\* x.mean(0) of a [N, C, 1, 1] tensor of reals, as a vector of C reals.
BatchMean(s, root) ==
    [c \in 1..s[2] |-> RealMeanOver({i \in Idx(s) : i[2] = c}, root)]

\* loss = per_channel_losses.mean()
WithMean(per_channel_losses) ==
    Scores(per_channel_losses,
           RealMeanOver(1..Len(per_channel_losses), per_channel_losses))

\* .sqrt().mean(0) of the spatial means.
rmse_root(sp) ==
    WithMean(BatchMean(sp.shape, [i \in Idx(sp.shape) |-> RealSqrt(sp.v[i])]))

\* error.mean([2, 3]).sqrt().mean(0), then the mean of that vector.
rmse_reduce(error) == rmse_root(TMean(error, {3, 4}))

\* rmse_weigh with the weights divided by their sum before they are applied.
rmse_weigh_normalised(error, w) ==
    IF IsNone(w) THEN rmse_reduce(error)
    ELSE IF ~Compatible(error.shape, w.shape) THEN Raise("RuntimeError")
    ELSE rmse_reduce(TMul(error, [shape |-> w.shape,
                                  v |-> [i \in Idx(w.shape) |-> RDiv(w.v[i], TSum(w))]]))

rmse_weigh(error, w) ==
    IF IsNone(w) THEN rmse_reduce(error)
    ELSE IF ~Compatible(error.shape, w.shape) THEN Raise("RuntimeError")
    ELSE rmse_reduce(TMul(error, w))

rmse_scores(p, t, w) ==
    IF ~Compatible(p.shape, t.shape) THEN Raise("RuntimeError")
    ELSE rmse_weigh(TSquare(TSub(Float(p), Float(t))), w)

rmse(p, t, w) == ByFlag(rmse_scores(p, t, w))

\* ----------------------------------------------------------------- nrmses

\* clim.squeeze() broadcast against a vector of channels: the value that
\* channel c is divided by.
y_normalization(cl, c) == RInt(cl.v[<<1, IF cl.shape[2] = 1 THEN 1 ELSE c, 1, 1>>])

\* x.sqrt() / y_normalization of a [1, C, 1, 1] tensor, then its mean.
Normalized(sp, cl) ==
    WithMean([c \in 1..sp.shape[2] |->
                RealScale(RealSqrt(sp.v[<<1, c, 1, 1>>]), RDiv(ROne, y_normalization(cl, c)))])

\* error.mean(dim=(-2, -1)).sqrt() / y_normalization, then its mean.
nrmses_reduce(error, cl) ==
    Normalized(TMean(error, {3, 4}), cl)

nrmses_weigh(error, cl, w) ==
    IF IsNone(w) THEN nrmses_reduce(error, cl)
    ELSE IF ~Compatible(error.shape, w.shape) THEN Raise("RuntimeError")
    ELSE nrmses_reduce(TMul(error, w), cl)

\* (pred.mean(dim=0) - target.mean(dim=0))**2
nrmses_error(pm, tm, cl, w) ==
    IF ~Compatible(pm.shape, tm.shape) THEN Raise("RuntimeError")
    ELSE nrmses_weigh(TSquare(TSub(pm, tm)), cl, w)

\* nrmses differencing the samples before the batch average: the mean over
\* the batch of the per-sample squared differences.
nrmses_scores_per_sample(p, t, cl, w) ==
    IF ~Compatible(p.shape, t.shape) THEN Raise("RuntimeError")
    ELSE nrmses_weigh(TMean(TSquare(TSub(Float(p), Float(t))), {1}), cl, w)

nrmses_scores(p, t, cl, w) ==
    nrmses_error(TMean(Float(p), {1}), TMean(Float(t), {1}), cl, w)

nrmses(p, t, cl, w) == ByFlag(nrmses_scores(p, t, cl, w))

\* ----------------------------------------------------------------- nrmseg

\* error = (pred - target)**2 of the per-sample spatial means, then
\* error.mean(0).sqrt() / y_normalization and its mean.
nrmseg_error(pm, tm, cl) ==
    IF ~Compatible(pm.shape, tm.shape) THEN Raise("RuntimeError")
    ELSE Normalized(TMean(TSquare(TSub(pm, tm)), {1}), cl)

\* pred.mean(dim=(-2, -1)), target.mean(dim=(-2, -1))
nrmseg_reduce(p, t, cl) ==
    nrmseg_error(TMean(p, {3, 4}), TMean(t, {3, 4}), cl)

nrmseg_scores(p, t, cl, w) ==
    IF IsNone(w) THEN nrmseg_reduce(Float(p), Float(t), cl)
    ELSE IF ~Compatible(p.shape, w.shape) \/ ~Compatible(t.shape, w.shape)
         THEN Raise("RuntimeError")
    ELSE nrmseg_reduce(TMul(Float(p), w), TMul(Float(t), w), cl)

nrmseg(p, t, cl, w) == ByFlag(nrmseg_scores(p, t, cl, w))

\* -------------------------------------------------------------------- acc

\* x - x.mean()
Demeaned(xc) == TSub(xc, TMean(xc, {1, 2, 3, 4}))

\* x[:, i] - x[:, i].mean()
Prime(x, i) == Demeaned(Channel(x, i))

\* numer / (denom1 * denom2).sqrt()
acc_ratio(w, pred_prime, target_prime) ==
    RatOverSurd(TSum(TMul(TMul(w, pred_prime), target_prime)),
                RealSqrt(RMul(TSum(TMul(w, TSquare(pred_prime))),
                              TSum(TMul(w, TSquare(target_prime))))))

\* The loop over the channels of pred, torch.stack and the mean, for
\* lat_weights that are a tensor.
acc_loop(pa, ta, w) ==
    IF \/ ~Compatible(w.shape, <<pa.shape[1], 1, pa.shape[3], pa.shape[4]>>)
       \/ ~Compatible(BShape(w.shape, <<pa.shape[1], 1, pa.shape[3], pa.shape[4]>>),
                      <<ta.shape[1], 1, ta.shape[3], ta.shape[4]>>)
       \/ ~Compatible(w.shape, <<ta.shape[1], 1, ta.shape[3], ta.shape[4]>>)
    THEN Raise("RuntimeError")
    ELSE IF pa.shape[2] > ta.shape[2] THEN Raise("IndexError")
    ELSE WithMean([i \in 1..pa.shape[2] |-> acc_ratio(w, Prime(pa, i), Prime(ta, i))])

\* acc_channels with an unweighted fallback when lat_weights is None.
acc_channels_fallback(pa, ta, w) ==
    acc_loop(pa, ta,
             IF IsNone(w)
             THEN [shape |-> <<1, 1, 1, 1>>, v |-> [j \in Idx(<<1, 1, 1, 1>>) |-> ROne]]
             ELSE w)

\* lat_weights * pred_prime with lat_weights None is a TypeError.
acc_channels(pa, ta, w) ==
    IF IsNone(w) THEN Raise("TypeError") ELSE acc_loop(pa, ta, w)

acc_scores(p, t, climatology, w) ==
    IF ~Compatible(t.shape, climatology.shape) THEN Raise("RuntimeError")
    ELSE acc_channels(TSub(Float(p), Float(climatology)),
                      TSub(Float(t), Float(climatology)), w)

acc(p, t, climatology, w) == ByFlag(acc_scores(p, t, climatology, w))

\* ---------------------------------------------------------------- pearson

\* The number of sections _flatten_channel_wise splits the channel axis into.
SplitSections == 2

\* torch.tensor_split(x, n, 1): section j holds c \div n channels, and one
\* more when j <= c % n.
SectionSize(c, n, j) == (c \div n) + (IF j <= c % n THEN 1 ELSE 0)

RECURSIVE SectionStart(_, _, _)
\* Channels before section j.
SectionStart(c, n, j) ==
    IF j = 1 THEN 0 ELSE SectionStart(c, n, j - 1) + SectionSize(c, n, j - 1)

\* The entries of channels o+1..o+k of x, in row-major order.
FlatChannels(x, o, k, hh, ww) ==
    [q \in 1..(x.shape[1] * k * hh * ww) |->
       x.v[<<((q - 1) \div (ww * hh * k)) + 1,
             o + (((q - 1) \div (ww * hh)) % k) + 1,
             (((q - 1) \div ww) % hh) + 1,
             ((q - 1) % ww) + 1>>]]

\* xi.flatten() of section j of torch.tensor_split(x, n, 1).
FlatSection(x, n, j) ==
    FlatChannels(x, SectionStart(x.shape[2], n, j), SectionSize(x.shape[2], n, j),
                 x.shape[3], x.shape[4])

\* torch.stack needs tensors of one size.
Stackable(s, n) ==
    \A j \in 1..n : s[1] * SectionSize(s[2], n, j) * s[3] * s[4]
                      = s[1] * SectionSize(s[2], n, 1) * s[3] * s[4]

\* The rows of _flatten_channel_wise(x).
flatten_channel_wise(x) == [j \in 1..SplitSections |-> FlatSection(x, SplitSections, j)]

\* row - m
Shifted(row, m) == [q \in 1..Len(row) |-> RSub(row[q], m)]

\* row - row.mean()
Centered(row) == Shifted(row, RMeanOver(1..Len(row), row))

\* Entry q of a row broadcast to a longer length.
RowAt(row, q) == IF Len(row) = 1 THEN row[1] ELSE row[q]

\* The dot product of two rows of length L after broadcasting.
Dot(x1, x2, L) == RSumOver(1..L, [q \in 1..L |-> RMul(RowAt(x1, q), RowAt(x2, q))])

\* w12 / sqrt(w1 * w2), the norms clamped from below by eps = 1e-8.  A row of
\* zeros has dot product 0 over a positive denominator; the nonzero rows the
\* entries drawn produce have norms far above eps.
CosineOf(w12, w1, w2) ==
    IF w1[1] = 0 \/ w2[1] = 0 THEN RealZero
    ELSE RatOverSurd(w12, RealSqrt(RMul(w1, w2)))

\* F.cosine_similarity of two rows (dim=1).
cosine_similarity(x1, x2) ==
    CosineOf(Dot(x1, x2, Max(Len(x1), Len(x2))),
             Dot(x1, x1, Max(Len(x1), Len(x2))),
             Dot(x2, x2, Max(Len(x1), Len(x2))))

\* Centering, the row-wise cosine similarity and the mean.
pearson_rows(pf, tf) ==
    IF ~(Len(pf[1]) = Len(tf[1]) \/ Len(pf[1]) = 1 \/ Len(tf[1]) = 1)
    THEN Raise("RuntimeError")
    ELSE WithMean([j \in 1..SplitSections |->
                     cosine_similarity(Centered(pf[j]), Centered(tf[j]))])

pearson_scores(p, t) ==
    IF ~Stackable(p.shape, SplitSections) \/ ~Stackable(t.shape, SplitSections)
    THEN Raise("RuntimeError")
    ELSE pearson_rows(flatten_channel_wise(Float(p)), flatten_channel_wise(Float(t)))

pearson(p, t) == ByFlag(pearson_scores(p, t))

\* -------------------------------------------------------------- mean_bias

\* torch.cat((per_channel_mean_bias, result.unsqueeze(0)))
mean_bias_cat(tm, pm, res) ==
    IF ~Compatible(tm.shape, pm.shape) THEN Raise("RuntimeError")
    ELSE Vector(Append(PerChannel(TSub(tm, pm)), res))

\* result = target.mean() - pred.mean()
mean_bias_result(p, t, aggregate_only, res) ==
    IF aggregate_only THEN Scalar(res)
    ELSE mean_bias_cat(TMean(t, {1, 3, 4}), TMean(p, {1, 3, 4}), res)

\* mean_bias with the sign convention pred minus target.
mean_bias_call_flipped(p, t, aggregate_only) ==
    mean_bias_result(Float(t), Float(p), aggregate_only,
                     RealOfRat(RSub(Item(TMean(Float(p), {1, 2, 3, 4})),
                                    Item(TMean(Float(t), {1, 2, 3, 4})))))

mean_bias_call(p, t, aggregate_only) ==
    mean_bias_result(Float(p), Float(t), aggregate_only,
                     RealOfRat(RSub(Item(TMean(Float(t), {1, 2, 3, 4})),
                                    Item(TMean(Float(p), {1, 2, 3, 4})))))

mean_bias(p, t) == [aggregate_only \in BOOLEAN |-> mean_bias_call(p, t, aggregate_only)]

\* ------------------------------------------------------------ the inputs

Shapes == {s \in (1..MaxCells) \X (1..MaxCells) \X (1..MaxCells) \X (1..MaxCells) :
             Cells(s) <= MaxCells}

\* The integer tensors of shape s with entries in V.
Tensors(s, V) == {[shape |-> s, v |-> f] : f \in [Idx(s) -> V]}

\* A climatology of one value per channel, shape [1, C, 1, 1].
Climatologies(c) == Tensors(<<1, c, 1, 1>>, ClimVals)

\* Latitude weights of shape [1, 1, h, 1] for a field of h latitudes, or of
\* shape [1, 1, 1, 1].
LatWeights(h) == Tensors(<<1, 1, h, 1>>, WeightVals) \cup Tensors(<<1, 1, 1, 1>>, WeightVals)

NoResult == [b \in BOOLEAN |-> [kind |-> "none", val |-> <<>>]]

\* pred and target of one shape, no metric called yet.
Init ==
    /\ \E s \in Shapes : pred \in Tensors(s, Vals) /\ target \in Tensors(s, Vals)
    /\ metric = "none"
    /\ clim = None
    /\ lat_weights = None
    /\ result = NoResult

\* pred and target of any two shapes.
InitAnyShape ==
    /\ \E s \in Shapes : pred \in Tensors(s, Vals)
    /\ \E s \in Shapes : target \in Tensors(s, Vals)
    /\ metric = "none"
    /\ clim = None
    /\ lat_weights = None
    /\ result = NoResult

\* Each action is one metric called on pred and target, once with
\* aggregate_only=False and once with aggregate_only=True, with the optional
\* arguments it was given.

CallMse ==
    /\ metric = "none"
    /\ \E w \in {None} \cup LatWeights(pred.shape[3]) :
         /\ lat_weights' = w
         /\ result' = mse(pred, target, w)
    /\ metric' = "mse"
    /\ UNCHANGED <<pred, target, clim>>

CallRmse ==
    /\ metric = "none"
    /\ \E w \in {None} \cup LatWeights(pred.shape[3]) :
         /\ lat_weights' = w
         /\ result' = rmse(pred, target, w)
    /\ metric' = "rmse"
    /\ UNCHANGED <<pred, target, clim>>

CallNrmses ==
    /\ metric = "none"
    /\ \E w \in {None} \cup LatWeights(pred.shape[3]), cl \in Climatologies(pred.shape[2]) :
         /\ lat_weights' = w
         /\ clim' = cl
         /\ result' = nrmses(pred, target, cl, w)
    /\ metric' = "nrmses"
    /\ UNCHANGED <<pred, target>>

CallNrmseg ==
    /\ metric = "none"
    /\ \E w \in {None} \cup LatWeights(pred.shape[3]), cl \in Climatologies(pred.shape[2]) :
         /\ lat_weights' = w
         /\ clim' = cl
         /\ result' = nrmseg(pred, target, cl, w)
    /\ metric' = "nrmseg"
    /\ UNCHANGED <<pred, target>>

CallAcc ==
    /\ metric = "none"
    /\ \E w \in {None} \cup LatWeights(pred.shape[3]), cl \in Climatologies(pred.shape[2]) :
         /\ lat_weights' = w
         /\ clim' = cl
         /\ result' = acc(pred, target, cl, w)
    /\ metric' = "acc"
    /\ UNCHANGED <<pred, target>>

CallPearson ==
    /\ metric = "none"
    /\ result' = pearson(pred, target)
    /\ metric' = "pearson"
    /\ UNCHANGED <<pred, target, clim, lat_weights>>

CallMeanBias ==
    /\ metric = "none"
    /\ result' = mean_bias(pred, target)
    /\ metric' = "mean_bias"
    /\ UNCHANGED <<pred, target, clim, lat_weights>>

Next ==
    \/ CallMse
    \/ CallRmse
    \/ CallNrmses
    \/ CallNrmseg
    \/ CallAcc
    \/ CallPearson
    \/ CallMeanBias

Spec == Init /\ [][Next]_vars

SpecAnyShape == InitAnyShape /\ [][Next]_vars

\* ------------------------------------------------------------- properties

\* The metrics of the squared-error family.
SquaredErrorFamily == {"mse", "rmse", "nrmses", "nrmseg"}

\* The number of input channels.
C == pred.shape[2]

\* Latitude weights of shape [1, 1, h, 1], all equal to q.
Uniform(h, q) == [shape |-> <<1, 1, h, 1>>, v |-> [i \in Idx(<<1, 1, h, 1>>) |-> q]]

\* What the metric called returns when it is given the weights w.
CallWith(w) ==
    CASE metric = "mse" -> mse(pred, target, w)
      [] metric = "rmse" -> rmse(pred, target, w)
      [] metric = "nrmses" -> nrmses(pred, target, clim, w)
      [] metric = "nrmseg" -> nrmseg(pred, target, clim, w)

\* The unweighted computation of the metric called: the call without
\* lat_weights, and for mse (whose call without lat_weights raises) the plain
\* means of the squared error.
Unweighted ==
    IF metric = "mse"
    THEN ByFlag(mse_reduce(TSquare(TSub(Float(pred), Float(target)))))
    ELSE CallWith(None)

\* Channel c of x holds two different values.
Varies(x, c) == \E i, j \in Idx(x.shape) : i[2] = c /\ j[2] = c /\ x.v[i] # x.v[j]

\* C1: every metric called with aggregate_only=False returns a sequence of
\* exactly C+1 scores.  (Calls of mse and acc without lat_weights are C3's and
\* C8's subject and are set aside here.)
C1_LengthIsChannelsPlusOne ==
    (metric # "none" /\ ~(metric \in {"mse", "acc"} /\ IsNone(lat_weights)))
        => (result[FALSE].kind = "vector" /\ Len(result[FALSE].val) = C + 1)

\* C2: whenever a metric returns, the score returned for aggregate_only=True
\* is the last element of the sequence returned for aggregate_only=False, and
\* it is the arithmetic mean of the elements before it.
C2_AggregateIsMeanOfPerChannel ==
    (metric # "none" /\ result[FALSE].kind = "vector")
        => /\ result[TRUE].kind = "scalar"
           /\ result[TRUE].val = result[FALSE].val[Len(result[FALSE].val)]
           /\ result[TRUE].val =
                RealMeanOver(1..(Len(result[FALSE].val) - 1), result[FALSE].val)

\* C2's case: mse on two channels whose scores differ.
C2_Witness ==
    /\ metric = "mse"
    /\ result[FALSE].kind = "vector"
    /\ C = 2
    /\ result[FALSE].val[1] # result[FALSE].val[2]

\* C3: without lat_weights every metric of the squared-error family returns,
\* and returns what it returns for weights all equal to 1.
C3_NoWeightsIsUnweighted ==
    (metric \in SquaredErrorFamily /\ IsNone(lat_weights))
        => (result[FALSE].kind = "vector" /\ result = CallWith(Uniform(pred.shape[3], ROne)))

\* C4: a call on a pred and a target of different shapes raises, whatever
\* aggregate_only is.
C4_ShapeMismatchRaises ==
    (metric # "none" /\ pred.shape # target.shape)
        => (result[FALSE].kind = "error" /\ result[TRUE].kind = "error")

\* C5 as stated: with latitude weights all equal to 1/H the squared-error
\* metrics return what the unweighted computation returns.
C5_UniformOverHIsUnweighted ==
    (metric \in SquaredErrorFamily /\ ~IsNone(lat_weights))
        => (lat_weights = Uniform(pred.shape[3], Rat(1, pred.shape[3]))
              => result = Unweighted)

\* C5 as amended: with latitude weights all equal to 1 the squared-error
\* metrics return what the unweighted computation returns.
C5_UniformOneIsUnweighted ==
    (metric \in SquaredErrorFamily /\ ~IsNone(lat_weights))
        => (lat_weights = Uniform(lat_weights.shape[3], ROne) => result = Unweighted)

\* C5's case: rmse over two latitudes, weights [1, 1], a nonzero score.
C5_Witness ==
    /\ metric = "rmse"
    /\ pred.shape[3] = 2
    /\ ~IsNone(lat_weights)
    /\ lat_weights = Uniform(2, ROne)
    /\ result[TRUE].kind = "scalar"
    /\ result[TRUE].val # RealZero

\* C6: for one sample (N = 1) the square of each per-channel rmse is the
\* per-channel mse of the same pred, target and lat_weights.
C6_RmseSquaredIsMse ==
    (metric = "rmse" /\ pred.shape[1] = 1)
        => /\ mse(pred, target, lat_weights)[FALSE].kind = "vector"
           /\ \A c \in 1..C :
                RealMul(result[FALSE].val[c], result[FALSE].val[c])
                  = mse(pred, target, lat_weights)[FALSE].val[c]

\* The relation of C6 where mse returns: lat_weights given.
RmseSquaredIsMseWhenWeighted ==
    (metric = "rmse" /\ pred.shape[1] = 1 /\ ~IsNone(lat_weights))
        => /\ mse(pred, target, lat_weights)[FALSE].kind = "vector"
           /\ \A c \in 1..C :
                RealMul(result[FALSE].val[c], result[FALSE].val[c])
                  = mse(pred, target, lat_weights)[FALSE].val[c]

\* Two samples on which the square of rmse is not mse.
RmseSquaredIsNotMse ==
    /\ metric = "rmse"
    /\ pred.shape[1] = 2
    /\ ~IsNone(lat_weights)
    /\ RealMul(result[FALSE].val[1], result[FALSE].val[1])
         # mse(pred, target, lat_weights)[FALSE].val[1]

\* C7: when target = pred + k elementwise, mean_bias returns k for every
\* channel and for the aggregate.
C7_MeanBiasOfOffset ==
    \A k \in {a - b : a, b \in Vals} :
        (metric = "mean_bias" /\ \A i \in Idx(pred.shape) : target.v[i] = pred.v[i] + k)
            => /\ result[TRUE] = Scalar(RealOfRat(RInt(k)))
               /\ result[FALSE] = Vector([c \in 1..(C + 1) |-> RealOfRat(RInt(k))])

\* C7's case: two channels, target = pred + 1.
C7_Witness ==
    /\ metric = "mean_bias"
    /\ C = 2
    /\ \A i \in Idx(pred.shape) : target.v[i] = pred.v[i] + 1

\* C8: acc without lat_weights raises, whatever aggregate_only is.
C8_AccNeedsWeights ==
    (metric = "acc" /\ IsNone(lat_weights))
        => (result[FALSE].kind = "error" /\ result[TRUE].kind = "error")

\* C8's case: acc called without lat_weights on fields that vary.
C8_Witness ==
    /\ metric = "acc"
    /\ IsNone(lat_weights)
    /\ Varies(pred, 1)
    /\ Varies(target, 1)

\* C9: pearson of a field with itself returns the coefficient 1 for every
\* input channel that varies.
C9_PearsonOfSelfIsOne ==
    (metric = "pearson" /\ target = pred)
        => \A c \in 1..C :
             Varies(pred, c)
               => /\ result[FALSE].kind = "vector"
                  /\ Len(result[FALSE].val) = C + 1
                  /\ result[FALSE].val[c] = RealOne

\* The batch means of pred and target agree at every (channel, lat, lon).
SameBatchMean == TMean(Float(pred), {1}) = TMean(Float(target), {1})

\* lat_weights, or weights of 1 when there are none.
WeightsOrOne == IF IsNone(lat_weights) THEN Uniform(1, ROne) ELSE lat_weights

\* The weighted spatial means of channel c of pred and target agree in every
\* sample.
SameSampleMeans(c) ==
    \A n \in 1..pred.shape[1] :
        TMean(TMul(Float(pred), WeightsOrOne), {3, 4}).v[<<n, c, 1, 1>>]
          = TMean(TMul(Float(target), WeightsOrOne), {3, 4}).v[<<n, c, 1, 1>>]

\* sqrt(mean over H, W of weight * (pm - tm)^2) / clim[c], for the batch
\* means pm and tm of pred and target.
BatchMeanFormula(pm, tm, c) ==
    RealScale(
        RealSqrt(RMeanOver(Idx(<<1, 1, pm.shape[3], pm.shape[4]>>),
                           [i \in Idx(<<1, 1, pm.shape[3], pm.shape[4]>>) |->
                              RMul(BAt(WeightsOrOne, i),
                                   RMul(RSub(pm.v[<<1, c, i[3], i[4]>>], tm.v[<<1, c, i[3], i[4]>>]),
                                        RSub(pm.v[<<1, c, i[3], i[4]>>], tm.v[<<1, c, i[3], i[4]>>])))])),
        Rat(1, clim.v[<<1, c, 1, 1>>]))

\* C10: the nrmses score of channel c is sqrt(mean over H, W of weight *
\* (batch mean of pred - batch mean of target)^2) / clim[c], so nrmses is 0 for
\* every channel when pred and target have the same batch mean at every
\* point; the nrmseg score of a channel is 0 exactly when the weighted spatial
\* means of pred and target agree in every sample.
C10_NrmseZeroes ==
    /\ metric = "nrmses"
         => \A c \in 1..C :
              result[FALSE].val[c]
                = BatchMeanFormula(TMean(Float(pred), {1}), TMean(Float(target), {1}), c)
    /\ (metric = "nrmses" /\ SameBatchMean)
         => result[FALSE] = Vector([c \in 1..(C + 1) |-> RealZero])
    /\ metric = "nrmseg"
         => \A c \in 1..C : (result[FALSE].val[c] = RealZero) <=> SameSampleMeans(c)

\* C10's case: samples that differ with one batch mean, where nrmses is 0 and
\* nrmseg is not.
C10_Witness ==
    /\ metric = "nrmses"
    /\ pred # target
    /\ SameBatchMean
    /\ result[FALSE].val[1] = RealZero
    /\ nrmseg(pred, target, clim, lat_weights)[FALSE].val[1] # RealZero

====
